---- MODULE Spec2Model ----
(***************************************************************************)
(* Model of server.js: an express service over one sqlite table `clients`  *)
(* (id, status, priority).  The table is the program's state; every route  *)
(* handler runs synchronously to completion and is one action.             *)
(*                                                                         *)
(* Optional JavaScript values (a missing body field, NaN from parseInt,    *)
(* NULL from SQL MAX) are modelled as sets of at most one element:         *)
(* None is the missing value, Some(v) a present one.                       *)
(***************************************************************************)
EXTENDS Integers, Sequences, FiniteSets, TLC

\* ---------------------------------------------------------------- bounds
\* Number of rows in the clients table (ids 1..NumClients).
NumClients == 3
\* At most this many PUTs per run with a priority out of range (see InRange).
MaxWild == 1
\* At most this many update handlers per run stop before their last statement.
MaxFaults == 1

\* ---------------------------------------------------------------- values
None == {}
Some(v) == {v}
The(o) == CHOOSE v \in o : TRUE

Ids == 1 .. NumClients

\* The three swimlanes named by the GET filter and the PUT documentation.
Lanes == {"backlog", "in-progress", "complete"}

\* Status strings a request may carry: the lanes, a string that is no lane,
\* and the empty string (falsy in JavaScript).
StatusValues == Lanes \cup {"archived", ""}

\* Every status a row can hold.
TableStatuses == Lanes \cup {"archived"}

StatusInputs == {None} \cup {Some(s) : s \in StatusValues}

\* Requested priorities: negative, zero, every rank of a full lane, and two
\* values past the end of any lane.
PriorityValues == (0 - 1) .. (NumClients + 2)

PriorityInputs == {None} \cup {Some(p) : p \in PriorityValues}

\* Priorities a row may hold in the model (window that bounds the state space).
PriorityWindow == (0 - 2) .. (NumClients + 3)

Digit == <<"1", "2", "3", "4", "5", "6", "7", "8", "9">>

DigitChars == {Digit[i] : i \in 1 .. 9}

DigitValue(c) == CHOOSE i \in 1 .. 9 : Digit[i] = c

\* The :id path parameter, as a sequence of characters: each row's id, the
\* id of no row, and strings that are not integers.
IdParams ==
  {<<Digit[i]>> : i \in Ids} \cup
  {<<"9">>, <<"x">>, <<"1", "x">>, <<"x", "1">>, <<"1", "2">>}

\* ------------------------------------------------------------- functions
\* Number of leading decimal digits of s.
RECURSIVE DigitPrefixLen(_)
DigitPrefixLen(s) ==
  IF s = <<>> \/ Head(s) \notin DigitChars THEN 0
  ELSE 1 + DigitPrefixLen(Tail(s))

RECURSIVE DecimalValue(_, _)
DecimalValue(s, n) ==
  IF n = 0 THEN 0
  ELSE 10 * DecimalValue(s, n - 1) + DigitValue(s[n])

\* parseInt(s, 10): the longest prefix of decimal digits, NaN (None) when
\* there is none; what follows the digits is ignored.
ParseInt(s) ==
  LET n == DigitPrefixLen(s)
  IN  IF n = 0 THEN None ELSE Some(DecimalValue(s, n))

\* select * from clients where id = ? limit 1
FindById(t, id) == IF id \in DOMAIN t THEN Some(t[id]) ELSE None

InvalidIdNaN ==
  [message |-> "Invalid id provided.",
   long_message |-> "Id can only be integer."]

InvalidIdMissing ==
  [message |-> "Invalid id provided.",
   long_message |-> "Cannot find client with that id."]

NoMessage == [message |-> "", long_message |-> ""]

\* validateId: [valid, messageObj]
validateId(t, id) ==
  IF id = None THEN [valid |-> FALSE, messageObj |-> InvalidIdNaN]
  ELSE IF FindById(t, The(id)) = None
       THEN [valid |-> FALSE, messageObj |-> InvalidIdMissing]
       ELSE [valid |-> TRUE, messageObj |-> NoMessage]

\* ------------------------------------------------------- SQL statements
\* Faulty variant of DecrementAbove: the WHERE clause forgets the status.
DecrementAboveAnyStatus(t, s, c) ==
  [i \in DOMAIN t |->
     IF t[i].priority > c
     THEN [t[i] EXCEPT !.priority = @ - 1] ELSE t[i]]

\* UPDATE clients SET priority = priority - 1 WHERE status = ? AND priority > ?
DecrementAbove(t, s, c) ==
  [i \in DOMAIN t |->
     IF t[i].status = s /\ t[i].priority > c
     THEN [t[i] EXCEPT !.priority = @ - 1] ELSE t[i]]

\* Faulty variant of IncrementFrom: > where the statement has >=.
IncrementAfter(t, s, p) ==
  [i \in DOMAIN t |->
     IF t[i].status = s /\ t[i].priority > p
     THEN [t[i] EXCEPT !.priority = @ + 1] ELSE t[i]]

\* Faulty variant of IncrementFrom: = where the statement has >=.
IncrementAt(t, s, p) ==
  [i \in DOMAIN t |->
     IF t[i].status = s /\ t[i].priority = p
     THEN [t[i] EXCEPT !.priority = @ + 1] ELSE t[i]]

\* UPDATE clients SET priority = priority + 1 WHERE status = ? AND priority >= ?
IncrementFrom(t, s, p) ==
  [i \in DOMAIN t |->
     IF t[i].status = s /\ t[i].priority >= p
     THEN [t[i] EXCEPT !.priority = @ + 1] ELSE t[i]]

\* SELECT MAX(priority) as maxPriority FROM clients WHERE status = ?
\* (NULL, modelled as None, when no row has the status)
MaxPriority(t, s) ==
  LET ps == {t[i].priority : i \in {j \in DOMAIN t : t[j].status = s}}
  IN  IF ps = {} THEN None
      ELSE Some(CHOOSE m \in ps : \A q \in ps : q <= m)

\* Faulty variant of AppendPriority: the + 1 is missing.
AppendPriorityNoStep(t, s) ==
  LET m == MaxPriority(t, s)
  IN  IF m # None /\ The(m) # 0 THEN The(m) ELSE 0

\* Faulty variant of AppendPriority: an empty lane counts as ending at 1.
AppendPriorityFromOne(t, s) ==
  LET m == MaxPriority(t, s)
  IN  (IF m # None /\ The(m) # 0 THEN The(m) ELSE 1) + 1

\* (row && row.maxPriority ? row.maxPriority : 0) + 1
AppendPriority(t, s) ==
  LET m == MaxPriority(t, s)
  IN  (IF m # None /\ The(m) # 0 THEN The(m) ELSE 0) + 1

\* Faulty variant of SetPlacement: only the status is set.
SetStatusOnly(t, id, s, p) == [t EXCEPT ![id].status = s]

\* UPDATE clients SET status = ?, priority = ? WHERE id = ?
SetPlacement(t, id, s, p) ==
  [t EXCEPT ![id] = [status |-> s, priority |-> p]]

\* Faulty variant of DecrementBetween: < where the statement has <=.
DecrementStrictlyBetween(t, s, c, p) ==
  [i \in DOMAIN t |->
     IF t[i].status = s /\ t[i].priority > c /\ t[i].priority < p
     THEN [t[i] EXCEPT !.priority = @ - 1] ELSE t[i]]

\* UPDATE clients SET priority = priority - 1
\*   WHERE status = ? AND priority > ? AND priority <= ?
DecrementBetween(t, s, c, p) ==
  [i \in DOMAIN t |->
     IF t[i].status = s /\ t[i].priority > c /\ t[i].priority <= p
     THEN [t[i] EXCEPT !.priority = @ - 1] ELSE t[i]]

\* UPDATE clients SET priority = priority + 1
\*   WHERE status = ? AND priority >= ? AND priority < ?
IncrementBetween(t, s, p, c) ==
  [i \in DOMAIN t |->
     IF t[i].status = s /\ t[i].priority >= p /\ t[i].priority < c
     THEN [t[i] EXCEPT !.priority = @ + 1] ELSE t[i]]

\* UPDATE clients SET priority = ? WHERE id = ?
SetPriority(t, id, p) == [t EXCEPT ![id].priority = p]

\* --------------------------------------------------- the update handler
\* Faulty variant of IsLaneChange: status !== client.status is not tested.
IsLaneChangeAlways(t, id, status) ==
  status # None /\ The(status) # ""

\* status && status !== client.status
IsLaneChange(t, id, status) ==
  status # None /\ The(status) # "" /\ The(status) # t[id].status

\* Faulty variant of IsReorder: priority !== client.priority is not tested.
IsReorderAlways(t, id, status, priority) ==
  ~IsLaneChange(t, id, status) /\ priority # None

\* priority !== undefined && priority !== client.priority
IsReorder(t, id, status, priority) ==
  ~IsLaneChange(t, id, status) /\ priority # None /\ The(priority) # t[id].priority

\* Faulty variant of MoveToLane: the gap in the old lane is not closed.
MoveToLaneLeavingGap(t, id, status, priority) ==
  IF priority # None
  THEN SetPlacement(IncrementFrom(t, status, The(priority)),
                    id, status, The(priority))
  ELSE SetPlacement(t, id, status, AppendPriority(t, status))

\* Faulty variant of MoveToLane: a priority above the end of the new lane is
\* brought down to the end.
MoveToLaneClamped(t, id, status, priority) ==
  LET closed == DecrementAbove(t, t[id].status, t[id].priority)
      end == AppendPriority(closed, status)
      p == IF The(priority) > end THEN end ELSE The(priority)
  IN  IF priority # None
      THEN SetPlacement(IncrementFrom(closed, status, p), id, status, p)
      ELSE SetPlacement(closed, id, status, end)

\* The lane-change branch: close the gap, make room or append, place.
MoveToLane(t, id, status, priority) ==
  LET closed == DecrementAbove(t, t[id].status, t[id].priority)
  IN  IF priority # None
      THEN SetPlacement(IncrementFrom(closed, status, The(priority)),
                        id, status, The(priority))
      ELSE SetPlacement(closed, id, status, AppendPriority(closed, status))

\* The same-lane branch: shift the block between the old and the new place.
Reorder(t, id, p) ==
  LET c == t[id].priority
      shifted == IF p > c THEN DecrementBetween(t, t[id].status, c, p)
                 ELSE IF p < c THEN IncrementBetween(t, t[id].status, p, c)
                 ELSE t
  IN  SetPriority(shifted, id, p)

\* The table after the update code of PUT /api/v1/clients/:id, for a valid id.
PutTable(t, id, status, priority) ==
  IF IsLaneChange(t, id, status) THEN MoveToLane(t, id, The(status), priority)
  ELSE IF IsReorder(t, id, status, priority) THEN Reorder(t, id, The(priority))
  ELSE t

\* The UPDATE statements the update code runs, in order.
PutStatements(t, id, status, priority) ==
  IF IsLaneChange(t, id, status)
  THEN IF priority # None
       THEN <<"decrementAbove", "incrementFrom", "setPlacement">>
       ELSE <<"decrementAbove", "setPlacement">>
  ELSE IF IsReorder(t, id, status, priority)
  THEN IF The(priority) > t[id].priority
       THEN <<"decrementBetween", "setPriority">>
       ELSE <<"incrementBetween", "setPriority">>
  ELSE <<>>

\* select * from clients
Rows(t) ==
  {[id |-> i, status |-> t[i].status, priority |-> t[i].priority] : i \in DOMAIN t}

\* Faulty variant of RowsWithStatus: the where clause is missing.
RowsOfAnyStatus(t, s) == Rows(t)

\* select * from clients where status = ?
RowsWithStatus(t, s) == {r \in Rows(t) : r.status = s}

\* ----------------------------------------------------------- predicates
LaneOf(t, s) == {i \in DOMAIN t : t[i].status = s}

LaneSize(t, s) == Cardinality(LaneOf(t, s))

PrioritiesOf(t, s) == {t[i].priority : i \in LaneOf(t, s)}

\* The priorities of status s are exactly 1..N, one row each.
ContiguousLane(t, s) ==
  /\ PrioritiesOf(t, s) = 1 .. LaneSize(t, s)
  /\ \A i, j \in LaneOf(t, s) : t[i].priority = t[j].priority => i = j

Contiguous(t) == \A s \in TableStatuses : ContiguousLane(t, s)

Unique(t) ==
  \A i, j \in DOMAIN t :
     (i # j /\ t[i].status = t[j].status) => t[i].priority # t[j].priority

InWindow(t) == \A i \in DOMAIN t : t[i].priority \in PriorityWindow

\* The lane a PUT places the client in.
Destination(t, id, status) ==
  IF IsLaneChange(t, id, status) THEN The(status) ELSE t[id].status

\* The requested priority is absent or between 1 and (size of the
\* destination lane) + 1.
InClaimedRange(t, id, status, priority) ==
  IF priority = None THEN TRUE
  ELSE The(priority) \in 1 .. (LaneSize(t, Destination(t, id, status)) + 1)

\* The requested priority is absent, or between 1 and (size of the new
\* lane) + 1 for a lane change, or between 1 and the lane size for a
\* same-lane re-rank.
InRange(t, id, status, priority) ==
  IF priority = None THEN TRUE
  ELSE The(priority) \in
         1 .. (LaneSize(t, Destination(t, id, status))
               + (IF IsLaneChange(t, id, status) THEN 1 ELSE 0))

\* ---------------------------------------------------------------- state
VARIABLES
  clients,  \* the clients table: id -> [status, priority]
  req,      \* the request being answered, or NoRequest
  res,      \* the response sent for req
  before,   \* the table when req arrived
  stmts,    \* the UPDATE statements run for req, in order
  wild,     \* PUTs served so far whose priority was not InRange
  tasks,    \* the handler calls in progress, statement by statement
  faults    \* update handlers stopped so far before their last statement

vars == <<clients, req, res, before, stmts, wild, tasks, faults>>

\* param is the :id path parameter and id what parseInt made of it.
NoRequest ==
  [method |-> "NONE", param |-> <<>>, id |-> None, status |-> None,
   priority |-> None]

NoResponse == [code |-> 0, message |-> "", long_message |-> "", rows |-> {}]

Ok(rows) == [code |-> 200, message |-> "", long_message |-> "", rows |-> rows]

BadRequest(m) ==
  [code |-> 400, message |-> m.message, long_message |-> m.long_message, rows |-> {}]

\* The requests a client can have in flight at once: two updates and a
\* read of the list.
Updaters == {"update1", "update2"}

Reader == "read"

Handlers == Updaters \cup {Reader}

\* A handler call: where it stands (pc), what the request asked for, the row
\* that line 139 found, and the priority line 169 will place the client at.
NoTask ==
  [pc |-> "idle", id |-> None, status |-> None, priority |-> None,
   client |-> None, newPriority |-> None]

InvalidStatus ==
  [message |-> "Invalid status provided.",
   long_message |->
     "Status can only be one of the following: [backlog | in-progress | complete]."]

Tables == [Ids -> [status : Lanes, priority : 1 .. NumClients]]

Init ==
  /\ clients \in {t \in Tables : Contiguous(t)}
  /\ req = NoRequest
  /\ res = NoResponse
  /\ before = clients
  /\ stmts = <<>>
  /\ wild = 0
  /\ tasks = [h \in Handlers |-> NoTask]
  /\ faults = 0

Idle == req.method = "NONE"

\* app.get('/api/v1/clients')
GetClients(status) ==
  /\ Idle
  /\ req' = [method |-> "LIST", param |-> <<>>, id |-> None, status |-> status,
             priority |-> None]
  /\ res' = IF status # None /\ The(status) # ""
            THEN IF The(status) \notin Lanes
                 THEN BadRequest(InvalidStatus)
                 ELSE Ok(RowsWithStatus(clients, The(status)))
            ELSE Ok(Rows(clients))
  /\ before' = clients
  /\ stmts' = <<>>
  /\ UNCHANGED <<clients, wild, tasks, faults>>

\* app.get('/api/v1/clients/:id')
GetClient(param) ==
  LET id == ParseInt(param)
      v == validateId(clients, id)
  IN  /\ Idle
      /\ req' = [method |-> "GET", param |-> param, id |-> id, status |-> None,
                 priority |-> None]
      /\ res' = IF ~v.valid THEN BadRequest(v.messageObj)
                ELSE Ok({r \in Rows(clients) : r.id = The(id)})
      /\ before' = clients
      /\ stmts' = <<>>
      /\ UNCHANGED <<clients, wild, tasks, faults>>

\* app.put('/api/v1/clients/:id'), answered 400: the body is never read.
PutInvalidId(param) ==
  LET id == ParseInt(param)
      v == validateId(clients, id)
  IN  /\ Idle
      /\ ~v.valid
      /\ req' = [method |-> "PUT", param |-> param, id |-> id, status |-> None,
                 priority |-> None]
      /\ res' = BadRequest(v.messageObj)
      /\ before' = clients
      /\ stmts' = <<>>
      /\ UNCHANGED <<clients, wild, tasks, faults>>

\* app.put('/api/v1/clients/:id') for an id that passes validateId.
PutClient(param, status, priority) ==
  LET id == ParseInt(param)
      v == validateId(clients, id)
      isWild == v.valid /\ ~InRange(clients, The(id), status, priority)
  IN  /\ Idle
      /\ v.valid
      /\ isWild => wild < MaxWild
      /\ InWindow(PutTable(clients, The(id), status, priority))
      /\ req' = [method |-> "PUT", param |-> param, id |-> id, status |-> status,
                 priority |-> priority]
      /\ clients' = PutTable(clients, The(id), status, priority)
      /\ stmts' = PutStatements(clients, The(id), status, priority)
      /\ res' = Ok(Rows(clients'))
      /\ before' = clients
      /\ wild' = IF isWild THEN wild + 1 ELSE wild
      /\ UNCHANGED <<tasks, faults>>

\* The response has been delivered; the server waits for the next request.
Finish ==
  /\ ~Idle
  /\ req' = NoRequest
  /\ res' = NoResponse
  /\ before' = clients
  /\ stmts' = <<>>
  /\ UNCHANGED <<clients, wild, tasks, faults>>

Next ==
  \/ \E s \in StatusInputs : GetClients(s)
  \/ \E a \in IdParams : GetClient(a)
  \/ \E a \in IdParams : PutInvalidId(a)
  \/ \E a \in IdParams, s \in StatusInputs, p \in PriorityInputs : PutClient(a, s, p)
  \/ Finish

Spec == Init /\ [][Next]_vars

\* The same server, asked only for priorities that are absent or in
\* 1..(destination lane size + 1), the client's own lane included.
PutClientClaimedRange(param, status, priority) ==
  /\ Idle
  /\ validateId(clients, ParseInt(param)).valid
  /\ InClaimedRange(clients, The(ParseInt(param)), status, priority)
  /\ PutClient(param, status, priority)

NextClaimedRange ==
  \/ \E s \in StatusInputs : GetClients(s)
  \/ \E a \in IdParams : GetClient(a)
  \/ \E a \in IdParams : PutInvalidId(a)
  \/ \E a \in IdParams, s \in StatusInputs, p \in PriorityInputs :
        PutClientClaimedRange(a, s, p)
  \/ Finish

SpecClaimedRange == Init /\ [][NextClaimedRange]_vars

\* ------------------------------------ the update handler, step by step
\* The same server with the PUT handler run one store statement at a time.
\* Every db.prepare(...).run(...) commits on its own: the handler opens no
\* transaction.  What keeps other handlers out is the event loop: the
\* handler is synchronous (better-sqlite3 blocks, there is no await), so a
\* request that arrives while it runs waits in the queue until it returns.

\* Faulty variant of EventLoopFree: a handler that yields between its
\* statements, as with an asynchronous store driver.
EventLoopShared(h) == TRUE

\* No other handler call is between its first line and its return.
EventLoopFree(h) ==
  \A j \in Handlers \ {h} : tasks[j].pc \in {"idle", "queued"}

\* The first statement the update code runs (lines 145, 173-176, 180-181).
FirstStep(t, id, status, priority) ==
  IF IsLaneChange(t, id, status) THEN "decrementAbove"
  ELSE IF IsReorder(t, id, status, priority)
  THEN IF The(priority) > t[id].priority
       THEN "decrementBetween" ELSE "incrementBetween"
  ELSE "respond"

UpdateLabels ==
  {"decrementAbove", "incrementFrom", "setPlacement", "decrementBetween",
   "incrementBetween", "setPriority"}

StepLabels == UpdateLabels \cup {"maxPriority"}

\* The statement at c.pc run on table t, with the parameters the handler
\* binds: the row read at line 139, not the row as it is now.
Execute(t, c) ==
  LET row == The(c.client)
      id == The(c.id)
  IN  CASE c.pc = "decrementAbove" ->
             [clients |-> DecrementAbove(t, row.status, row.priority),
              pc |-> IF c.priority # None THEN "incrementFrom" ELSE "maxPriority",
              newPriority |-> None]
        [] c.pc = "incrementFrom" ->
             [clients |-> IncrementFrom(t, The(c.status), The(c.priority)),
              pc |-> "setPlacement",
              newPriority |-> c.priority]
        [] c.pc = "maxPriority" ->
             [clients |-> t,
              pc |-> "setPlacement",
              newPriority |-> Some(AppendPriority(t, The(c.status)))]
        [] c.pc = "setPlacement" ->
             [clients |-> SetPlacement(t, id, The(c.status), The(c.newPriority)),
              pc |-> "respond",
              newPriority |-> c.newPriority]
        [] c.pc = "decrementBetween" ->
             [clients |-> DecrementBetween(t, row.status, row.priority,
                                           The(c.priority)),
              pc |-> "setPriority",
              newPriority |-> None]
        [] c.pc = "incrementBetween" ->
             [clients |-> IncrementBetween(t, row.status, The(c.priority),
                                           row.priority),
              pc |-> "setPriority",
              newPriority |-> None]
        [] c.pc = "setPriority" ->
             [clients |-> SetPriority(t, id, The(c.priority)),
              pc |-> "respond",
              newPriority |-> None]

\* A request reaches the server; its handler waits for the event loop.
Arrive(h) ==
  /\ tasks[h].pc = "idle"
  /\ tasks' = [tasks EXCEPT ![h].pc = "queued"]
  /\ UNCHANGED <<clients, req, res, before, stmts, wild, faults>>

\* The statuses the step-by-step server is asked for: a lane, the empty
\* string, or none.
LaneInputs == {None} \cup {Some(s) : s \in Lanes \cup {""}}

\* Lines 131-139: the PUT handler starts, validates the id and reads the row.
\* The requests are those whose priority is InRange for the table the
\* handler starts on.
PutBegin(h, param, status, priority) ==
  LET id == ParseInt(param)
      v == validateId(clients, id)
  IN  /\ Idle
      /\ tasks[h].pc = "queued"
      /\ EventLoopFree(h)
      /\ v.valid
      /\ InRange(clients, The(id), status, priority)
      /\ tasks' = [tasks EXCEPT ![h] =
                     [pc |-> FirstStep(clients, The(id), status, priority),
                      id |-> id, status |-> status, priority |-> priority,
                      client |-> Some(clients[The(id)]),
                      newPriority |-> None]]
      /\ before' = clients
      /\ stmts' = <<>>
      /\ UNCHANGED <<clients, req, res, wild, faults>>

\* One statement of lines 145-188 runs and commits.
PutStep(h) ==
  /\ tasks[h].pc \in StepLabels
  /\ LET e == Execute(clients, tasks[h])
     IN  /\ clients' = e.clients
         /\ tasks' = [tasks EXCEPT ![h].pc = e.pc,
                                   ![h].newPriority = e.newPriority]
  /\ stmts' = IF tasks[h].pc \in UpdateLabels
              THEN Append(stmts, tasks[h].pc) ELSE stmts
  /\ UNCHANGED <<req, res, before, wild, faults>>

\* Lines 191-194: the handler reads the table, answers 200 and returns.
PutRespond(h) ==
  /\ tasks[h].pc = "respond"
  /\ tasks' = [tasks EXCEPT ![h] = NoTask]
  /\ before' = clients
  /\ stmts' = <<>>
  /\ UNCHANGED <<clients, req, res, wild, faults>>

\* app.get('/api/v1/clients'), run when the event loop reaches it.
GetClientsQueued(status) ==
  /\ Idle
  /\ tasks[Reader].pc = "queued"
  /\ EventLoopFree(Reader)
  /\ req' = [method |-> "LIST", param |-> <<>>, id |-> None, status |-> status,
             priority |-> None]
  /\ res' = IF status # None /\ The(status) # ""
            THEN IF The(status) \notin Lanes
                 THEN BadRequest(InvalidStatus)
                 ELSE Ok(RowsWithStatus(clients, The(status)))
            ELSE Ok(Rows(clients))
  /\ tasks' = [tasks EXCEPT ![Reader] = NoTask]
  /\ UNCHANGED <<clients, before, stmts, wild, faults>>

\* The read's response has been delivered.
Delivered ==
  /\ ~Idle
  /\ req' = NoRequest
  /\ res' = NoResponse
  /\ UNCHANGED <<clients, before, stmts, wild, tasks, faults>>

NextEventLoop ==
  \/ \E h \in Handlers : Arrive(h)
  \/ \E h \in Updaters, a \in IdParams, s \in LaneInputs, p \in PriorityInputs :
        PutBegin(h, a, s, p)
  \/ \E h \in Updaters : PutStep(h)
  \/ \E h \in Updaters : PutRespond(h)
  \/ \E s \in StatusInputs : GetClientsQueued(s)
  \/ Delivered

SpecEventLoop == Init /\ [][NextEventLoop]_vars

\* The same step-by-step server when a statement can throw (the store
\* reports a fault and Express answers 500) or the process can be killed.
\* The statements already run stay committed: nothing rolls them back.
Fault(h) ==
  /\ tasks[h].pc \in StepLabels \cup {"respond"}
  /\ faults < MaxFaults
  /\ tasks' = [tasks EXCEPT ![h].pc = "failed"]
  /\ faults' = faults + 1
  /\ UNCHANGED <<clients, req, res, before, stmts, wild>>

\* The server carries on (or is started again) on the table as it was left.
Restart(h) ==
  /\ tasks[h].pc = "failed"
  /\ tasks' = [tasks EXCEPT ![h] = NoTask]
  /\ before' = clients
  /\ stmts' = <<>>
  /\ UNCHANGED <<clients, req, res, wild, faults>>

NextFault ==
  \/ \E h \in Handlers : Arrive(h)
  \/ \E h \in Updaters, a \in IdParams, s \in LaneInputs, p \in PriorityInputs :
        PutBegin(h, a, s, p)
  \/ \E h \in Updaters : PutStep(h)
  \/ \E h \in Updaters : PutRespond(h)
  \/ \E h \in Updaters : Fault(h)
  \/ \E h \in Updaters : Restart(h)
  \/ \E s \in StatusInputs : GetClientsQueued(s)
  \/ Delivered

SpecFault == Init /\ [][NextFault]_vars

\* ------------------------------------------------------------ properties
\* The request just answered was a PUT that passed validateId.
PutServed == req.method = "PUT" /\ res.code = 200

\* The client a served PUT names.
Target == The(req.id)

\* A served PUT that took the lane-change branch.
LaneChanged == PutServed /\ IsLaneChange(before, Target, req.status)

\* A served PUT that took the same-lane branch.
Reordered == PutServed /\ IsReorder(before, Target, req.status, req.priority)

\* The path parameter is a decimal integer: digits and nothing else.
IsInteger(s) == s # <<>> /\ \A k \in 1 .. Len(s) : s[k] \in DigitChars

\* Some client other than the target has a new priority.
OthersShifted == \E i \in Ids : i # Target /\ clients[i] # before[i]

\* C1 (as claimed): with every requested priority absent or between 1 and
\* (destination lane size) + 1, the client's own lane counting as the
\* destination of a same-lane re-rank, every lane's priorities are exactly
\* 1..N after every update.
C1_ContiguousClaimedRange == Contiguous(clients)

\* C1 (amended): as long as every requested priority was absent or between
\* 1 and (destination lane size) + 1 for a lane change, and between 1 and
\* the lane size for a same-lane re-rank, every lane's priorities are
\* exactly 1..N after every update.
C1_ContiguousInRange == wild = 0 => Contiguous(clients)

C1_Witness ==
  /\ wild = 0
  /\ PutServed
  /\ req.priority # None
  /\ OthersShifted
  /\ LaneSize(clients, clients[Target].status) = NumClients

\* C2: whatever integer priorities and statuses the PUTs carry, no two
\* clients of the same status share a priority.
C2_UniquePriorities == Unique(clients)

C2_Witness ==
  /\ PutServed
  /\ req.priority # None
  /\ The(req.priority) <= 0
  /\ clients[Target].priority <= 0
  /\ LaneSize(clients, clients[Target].status) > 1

\* The case of C3: a same-lane re-rank of a client of a contiguous lane of N
\* clients to a priority in 1..N other than its own.
C3_Case ==
  /\ Reordered
  /\ ContiguousLane(before, before[Target].status)
  /\ The(req.priority) \in 1 .. LaneSize(before, before[Target].status)

\* The priority C3 gives a client of the lane that had priority q, when the
\* target moves from c to p.
C3_Expected(q, c, p) ==
  IF p > c /\ c < q /\ q <= p THEN q - 1
  ELSE IF p < c /\ p <= q /\ q < c THEN q + 1
  ELSE q

\* C3: after a same-lane re-rank from c to p (p in 1..N, p # c) the client
\* has priority p, the clients between the two places have moved one place
\* towards c, and every other client of the lane keeps its priority.
C3_RerankResult ==
  C3_Case =>
    LET c == before[Target].priority
        p == The(req.priority)
        lane == before[Target].status
    IN  /\ clients[Target] = [status |-> lane, priority |-> p]
        /\ \A i \in LaneOf(before, lane) \ {Target} :
             clients[i] =
               [status |-> lane,
                priority |-> C3_Expected(before[i].priority, c, p)]

C3_Witness ==
  /\ C3_Case
  /\ before[Target].priority = 1
  /\ The(req.priority) = 3
  /\ \E i \in Ids : before[i].priority = 2 /\ clients[i].priority = 1
  /\ \E i \in Ids : before[i].priority = 3 /\ clients[i].priority = 2

\* The case of C4 and C5: a lane change, without and with a priority.
C4_Case == LaneChanged /\ req.priority = None

C5_Case == LaneChanged /\ req.priority # None

\* Every client of the lane the target left that was below it has moved up
\* one place, and the clients above it are where they were.
GapClosed ==
  LET a == before[Target].status
      c == before[Target].priority
  IN  \A i \in LaneOf(before, a) \ {Target} :
        clients[i] =
          [status |-> a,
           priority |-> IF before[i].priority > c THEN before[i].priority - 1
                        ELSE before[i].priority]

\* The highest priority of status s in table t, 0 when no row has it.
Highest(t, s) ==
  IF LaneOf(t, s) = {} THEN 0
  ELSE CHOOSE m \in PrioritiesOf(t, s) : \A q \in PrioritiesOf(t, s) : q <= m

\* C4: a lane change without a priority puts the client at the end of the
\* new lane (highest priority there + 1), closes the gap in the old lane and
\* moves no client of the new lane.
C4_AppendResult ==
  C4_Case =>
    LET b == The(req.status)
    IN  /\ clients[Target] =
             [status |-> b, priority |-> Highest(before, b) + 1]
        /\ GapClosed
        /\ \A i \in LaneOf(before, b) : clients[i] = before[i]

C4_Witness ==
  /\ C4_Case
  /\ LaneOf(before, The(req.status)) # {}
  /\ \E i \in Ids :
       /\ i # Target
       /\ before[i].status = before[Target].status
       /\ before[i].priority > before[Target].priority
       /\ clients[i].priority = before[i].priority - 1

\* C5: a lane change with priority p puts the client in the new lane at
\* exactly p, moves every client of the new lane at p or below down one
\* place, leaves those above p alone, and closes the gap in the old lane.
C5_InsertResult ==
  C5_Case =>
    LET b == The(req.status)
        p == The(req.priority)
    IN  /\ clients[Target] = [status |-> b, priority |-> p]
        /\ GapClosed
        /\ \A i \in LaneOf(before, b) :
             clients[i] =
               [status |-> b,
                priority |-> IF before[i].priority >= p
                             THEN before[i].priority + 1
                             ELSE before[i].priority]

C5_Witness ==
  /\ C5_Case
  /\ \E i, j \in LaneOf(before, The(req.status)) :
       /\ before[i].priority < The(req.priority)
       /\ before[j].priority >= The(req.priority)
       /\ clients[j].priority = before[j].priority + 1

\* C6: applying the PUT just served once more to the same client runs no
\* UPDATE statement and leaves the table as it is.
C6_Idempotent ==
  PutServed =>
    /\ PutTable(clients, Target, req.status, req.priority) = clients
    /\ PutStatements(clients, Target, req.status, req.priority) = <<>>

C6_Witness ==
  /\ PutServed
  /\ clients # before
  /\ OthersShifted
  /\ PutTable(clients, Target, req.status, req.priority) = clients

\* C7: after a lane change of a client that was at priority p in lane A, the
\* PUT that moves it back to A with priority p restores the whole table.
C7_RoundTrip ==
  LaneChanged =>
    PutTable(clients, Target, Some(before[Target].status),
             Some(before[Target].priority)) = before

C7_Witness ==
  /\ C5_Case
  /\ Contiguous(before)
  /\ \E i \in LaneOf(before, The(req.status)) : clients[i] # before[i]
  /\ \E i \in LaneOf(before, before[Target].status) \ {Target} :
       clients[i] # before[i]
  /\ PutTable(clients, Target, Some(before[Target].status),
              Some(before[Target].priority)) = before

\* The answer of validateId's refusals: 400 with the two-part message, no
\* UPDATE statement, no row changed.
RejectedWithoutEffect ==
  /\ res.code = 400
  /\ res.message = "Invalid id provided."
  /\ res.long_message \in
       {"Id can only be integer.", "Cannot find client with that id."}
  /\ stmts = <<>>
  /\ clients = before

\* C8: a PUT or GET by id whose id is not an integer, or is the id of no
\* row, is answered 400 with the two-part message and changes nothing.
C8_InvalidIdRejected ==
  (req.method \in {"PUT", "GET"} /\
   (~IsInteger(req.param) \/ req.id = None \/ The(req.id) \notin Ids))
    => RejectedWithoutEffect

\* C9: a PUT with a priority of 0 or less is rejected: it is answered 400,
\* runs no UPDATE statement and changes no row.
C9_NonPositiveRejected ==
  (req.method = "PUT" /\ req.priority # None /\ The(req.priority) <= 0)
    => (res.code = 400 /\ stmts = <<>> /\ clients = before)

\* C10: a PUT with a status that is none of the three lanes is answered 400
\* and changes nothing, so every client's status is always a lane.
C10_StatusInLanes ==
  /\ (req.method = "PUT" /\ req.status # None /\ The(req.status) \notin Lanes)
       => (res.code = 400 /\ stmts = <<>> /\ clients = before)
  /\ \A i \in Ids : clients[i].status \in Lanes

\* ------------------------------------------ properties of the whole handlers
\* C14: a lane change into lane B with a priority above (highest priority in
\* B) + 1 is taken literally: the client ends in B at exactly that priority,
\* no client already in B changes, and B is left with a gap.
C14_LiteralPlacement ==
  (C5_Case /\ The(req.priority) > Highest(before, The(req.status)) + 1) =>
    LET b == The(req.status)
    IN  /\ clients[Target] = [status |-> b, priority |-> The(req.priority)]
        /\ \A i \in LaneOf(before, b) : clients[i] = before[i]
        /\ ~ContiguousLane(clients, b)

C14_Witness ==
  /\ C5_Case
  /\ LaneSize(before, The(req.status)) = 2
  /\ The(req.priority) > Highest(before, The(req.status)) + 1
  /\ clients[Target].priority = The(req.priority)

\* The rows of the table, written out.
AllRows ==
  {[id |-> i, status |-> clients[i].status, priority |-> clients[i].priority] :
     i \in Ids}

\* The read named no status (an empty status counts as none).
NoStatusAsked ==
  IF req.status = None THEN TRUE ELSE The(req.status) = ""

\* C15: a list read with one of the three statuses returns exactly the
\* clients of that status, without a status all clients, and with any other
\* status 400 'Invalid status provided.'; no read, of the list or by id,
\* answered 200 or 400, changes a row.
C15_ReadsFilterAndKeep ==
  /\ req.method \in {"LIST", "GET"} => (clients = before /\ stmts = <<>>)
  /\ req.method = "LIST" =>
       IF NoStatusAsked THEN res.code = 200 /\ res.rows = AllRows
       ELSE IF The(req.status) \in Lanes
       THEN /\ res.code = 200
            /\ res.rows = {r \in AllRows : r.status = The(req.status)}
       ELSE /\ res.code = 400
            /\ res.message = "Invalid status provided."

C15_Witness ==
  /\ req.method = "LIST"
  /\ ~NoStatusAsked
  /\ res.code = 200
  /\ res.rows # {}
  /\ res.rows # AllRows

\* C16: a lane change without priority into a lane that holds no client
\* takes the lane's highest priority as 0 and gives the client priority 1.
C16_AppendIntoEmptyLane ==
  (C4_Case /\ LaneOf(before, The(req.status)) = {}) =>
    clients[Target] = [status |-> The(req.status), priority |-> 1]

C16_Witness ==
  /\ C4_Case
  /\ LaneOf(before, The(req.status)) = {}
  /\ before[Target].priority > 1
  /\ clients[Target].priority = 1

\* The lanes a PUT may touch: the target's old lane and the lane asked for.
TouchedLanes ==
  {before[Target].status} \cup
    (IF req.status = None THEN {} ELSE {The(req.status)})

\* C17: a PUT changes the status of no client but its target, changes
\* priorities only in the target's old lane and in the lane asked for,
\* leaves every other lane as it was, and keeps the set of ids.
C17_Frame ==
  /\ DOMAIN clients = DOMAIN before
  /\ PutServed =>
       \A i \in Ids \ {Target} :
         /\ clients[i].status = before[i].status
         /\ before[i].status \notin TouchedLanes => clients[i] = before[i]
  /\ (req.method = "PUT" /\ res.code # 200) => clients = before

C17_Witness ==
  /\ LaneChanged
  /\ OthersShifted
  /\ \E i \in Ids : before[i].status \notin TouchedLanes

\* C18: a PUT on client x keeps the relative order of the others: two
\* clients other than x that share a lane before and after are in the same
\* order after as before.
C18_OrderKept ==
  PutServed =>
    \A a, b \in Ids \ {Target} :
      (before[a].status = before[b].status /\
       clients[a].status = clients[b].status)
        => ((clients[a].priority < clients[b].priority)
              <=> (before[a].priority < before[b].priority))

C18_Witness ==
  /\ PutServed
  /\ \E a, b \in Ids \ {Target} :
       /\ a # b
       /\ before[a].status = before[b].status
       /\ clients[a].priority # before[a].priority
       /\ clients[b].priority # before[b].priority

\* The PUT names a status, not empty, that is not the target's status.
StatusDiffers ==
  IF req.status = None THEN FALSE
  ELSE The(req.status) # "" /\ The(req.status) # before[Target].status

\* The PUT names a priority that is not the target's priority.
PriorityDiffers ==
  IF req.priority = None THEN FALSE
  ELSE The(req.priority) # before[Target].priority

\* C19: a PUT whose status is present and differs from the client's takes
\* the lane-change path, whatever its priority; otherwise it takes the
\* same-lane path exactly when its priority is present and differs from the
\* client's; otherwise it runs no UPDATE statement and changes no row.
C19_CaseSelection ==
  PutServed =>
    IF StatusDiffers
    THEN /\ stmts # <<>>
         /\ stmts[1] = "decrementAbove"
         /\ stmts[Len(stmts)] = "setPlacement"
         /\ clients[Target].status = The(req.status)
    ELSE IF PriorityDiffers
    THEN /\ Len(stmts) = 2
         /\ stmts[1] \in {"decrementBetween", "incrementBetween"}
         /\ stmts[2] = "setPriority"
         /\ clients[Target] =
              [status |-> before[Target].status, priority |-> The(req.priority)]
    ELSE stmts = <<>> /\ clients = before

C19_Witness ==
  /\ PutServed
  /\ StatusDiffers
  /\ req.priority = Some(before[Target].priority)
  /\ stmts = <<"decrementAbove", "incrementFrom", "setPlacement">>
  /\ clients # before

\* ------------------------------------- properties of the step-by-step server
\* An update handler that has run at least one statement and not yet its last.
MidUpdate(h) ==
  tasks[h].pc \in StepLabels /\ stmts # <<>>

\* The priorities of the rows of one status are exactly 1..N, one row each.
RowsContiguous(rows, s) ==
  LET lane == {r \in rows : r.status = s}
  IN  /\ {r.priority : r \in lane} = 1 .. Cardinality(lane)
      /\ \A q, r \in lane : q.priority = r.priority => q.id = r.id

\* The read of the list has been answered with rows.
ReadServed == req.method = "LIST" /\ res.code = 200

C13_AllOrNothing ==
  \A h \in Updaters :
    tasks[h].pc = "failed" =>
      \/ clients = before
      \/ clients = PutTable(before, The(tasks[h].id), tasks[h].status,
                            tasks[h].priority)

====
